---- MODULE Spec2Model ----
(***************************************************************************)
(* Order creation and order lifecycle of MongoBites (src/app.py): the      *)
(* collections productos, pedidos, detalle_pedido and auditoria, and the   *)
(* handlers pedidos_crear, cambiar_estado_pedido, productos_crear,         *)
(* productos_actualizar and productos_eliminar.                            *)
(*                                                                         *)
(* app.run serves every request in a thread of its own and the handlers    *)
(* take no lock and open no transaction, so a step of the model is one     *)
(* operation of one thread on the database, and the steps of two requests  *)
(* interleave freely.  Any operation on the database may raise; the        *)
(* handler then leaves through its except branch.                          *)
(*                                                                         *)
(* Prices are whole numbers (floats that hold integers exactly), so the    *)
(* float arithmetic of the handlers is exact integer arithmetic here.      *)
(***************************************************************************)
EXTENDS Integers, Sequences, FiniteSets, TLC

\* ------------------------------------------------------------------ bounds
MaxPedidos == 2
MaxLineas == 2
MaxCant == 2
MaxAudit == 2
StockInicial == 2
MaxPeticiones == 3
MaxFormularios == 2

\* ------------------------------------------------------------------ inputs
\* Product ids: "p1", "p2" are well-formed ObjectId strings, "zz" is a string
\* that ObjectId() refuses.
Pids == {"p1", "p2"}
PidInputs == Pids \cup {"zz"}

\* A submitted quantity: the text of a form field, either the decimal text of
\* an integer (esEntero, valor) or a text int() refuses ("abc", "1.5", "").
CantInputs ==
  {[esEntero |-> TRUE, valor |-> v] : v \in (-1)..MaxCant}
    \cup {[esEntero |-> FALSE, valor |-> 0]}

\* Order ids submitted in a URL: 1..MaxPedidos are well-formed ObjectId
\* strings (the order may not exist yet), 0 is a malformed one.
IdPedidoInputs == 0..MaxPedidos

\* id_cliente of the order form: missing, well-formed, malformed.
ClienteInputs == {"", "c1", "zz"}

\* Raw text of the "estado" form field.
EstadoInputs ==
  {"CREADO", "PAGADO", "ENVIADO", "CANCELADO", " cancelado ", "pagado",
   "DEVUELTO", ""}

\* The threads of the server (app.run serves each request in its own
\* thread) and the record of a thread that is executing no request.
Hilos == {"h1", "h2"}
HiloLibre == [pc |-> "libre"]

SeqsHasta(S, n) == UNION {[1..k -> S] : k \in 0..n}

\* productos, pedidos, detalle_pedido, auditoria: the collections.  hilos
\* holds, for each thread of the server, the position (pc), the request and
\* the local variables of the handler it is executing, and at the end the
\* message it flashed; peticiones counts the requests handed to the threads;
\* creados counts the documents inserted in productos, each under an
\* ObjectId of its own that the driver generates.
VARIABLES productos, pedidos, detalle_pedido, auditoria, hilos, peticiones,
          creados

vars ==
  <<productos, pedidos, detalle_pedido, auditoria, hilos, peticiones, creados>>
db == <<productos, pedidos, detalle_pedido, auditoria>>

Min(a, b) == IF a <= b THEN a ELSE b

\* ObjectId(pid): succeeds on a well-formed id.
ObjectIdValido(pid) == pid # "zz"

\* The ObjectId the driver generates for the k-th document inserted in
\* productos (insert_one is given no _id): one no document had before.
IdNuevo(k) == "n" \o ToString(k)

\* ------------------------------------------------------ pedidos_crear
\* Mutant: the quantity test is q >= 0.
RECURSIVE NormalizaDesde_acepta_cero(_, _, _)
NormalizaDesde_acepta_cero(ids, cants, i) ==
  IF i > Min(Len(ids), Len(cants)) THEN <<>>
  ELSE LET keep == /\ cants[i].esEntero
                   /\ cants[i].valor >= 0
                   /\ ObjectIdValido(ids[i])
           rest == NormalizaDesde_acepta_cero(ids, cants, i + 1)
       IN IF keep THEN <<[pid |-> ids[i], q |-> cants[i].valor]>> \o rest
          ELSE rest

\* Lines 638-646: zip(ids, cants), keep the pairs whose quantity is an
\* integer > 0 and whose product id is well-formed; the others are dropped.
RECURSIVE NormalizaDesde(_, _, _)
NormalizaDesde(ids, cants, i) ==
  IF i > Min(Len(ids), Len(cants)) THEN <<>>
  ELSE LET keep == /\ cants[i].esEntero
                   /\ cants[i].valor > 0
                   /\ ObjectIdValido(ids[i])
           rest == NormalizaDesde(ids, cants, i + 1)
       IN IF keep THEN <<[pid |-> ids[i], q |-> cants[i].valor]>> \o rest
          ELSE rest

Normaliza(ids, cants) == NormalizaDesde(ids, cants, 1)

\* Mutant: the query has no "activo" filter.
ProductoActivo_sin_activo(prods, pid) == pid \in DOMAIN prods

\* find_one({"_id": pid, "activo": True})
ProductoActivo(prods, pid) == pid \in DOMAIN prods /\ prods[pid].activo

\* Line 662: subtotal = float(prod["precio"]) * q
Subtotal(precio, q) == precio * q

\* Lines 655-670, one iteration of the validation loop on the item it, with
\* the products as the find_one of line 655 reads them: the message of the
\* early return, or "ok" with the total and the line items so far.
ValidarLinea(prods, it, total, detalles) ==
  IF ~ProductoActivo(prods, it.pid)
  THEN [flash |-> "Producto no encontrado o inactivo.",
        total |-> total, detalles |-> detalles]
  ELSE IF prods[it.pid].stock < it.q
  THEN [flash |-> "Stock insuficiente", total |-> total, detalles |-> detalles]
  ELSE LET prod == prods[it.pid]
           subtotal == Subtotal(prod.precio, it.q)
       IN [flash |-> "ok",
           total |-> total + subtotal,
           detalles |-> Append(detalles,
             [id_producto |-> it.pid,
              nombre_producto |-> prod.nombre,
              cantidad |-> it.q,
              precio_unit |-> prod.precio,
              subtotal |-> subtotal])]

\* update_one({"_id": pid}, {"$inc": {"stock": n}}): no document, no write.
IncStock(prods, pid, n) ==
  IF pid \in DOMAIN prods
  THEN [prods EXCEPT ![pid].stock = @ + n]
  ELSE prods

\* Mutant: a line takes one unit of stock, whatever its quantity.
DescontarLinea_una_unidad(prods, d) == IncStock(prods, d.id_producto, -1)

\* Mutant: the decrement is applied only while the stock covers it.
DescontarLinea_con_filtro(prods, d) ==
  IF d.id_producto \in DOMAIN prods /\ prods[d.id_producto].stock >= d.cantidad
  THEN IncStock(prods, d.id_producto, -d.cantidad)
  ELSE prods

\* Line 688: $inc of minus the quantity on the product of the line.
DescontarLinea(prods, d) == IncStock(prods, d.id_producto, -d.cantidad)

\* Lines 686-687: the line item as it is inserted, with its order's id.
ConPedido(d, id_pedido) ==
  [id_pedido |-> id_pedido,
   id_producto |-> d.id_producto,
   nombre_producto |-> d.nombre_producto,
   cantidad |-> d.cantidad,
   precio_unit |-> d.precio_unit,
   subtotal |-> d.subtotal]

\* ------------------------------------------------- cambiar_estado_pedido
Estados == {"CREADO", "PAGADO", "ENVIADO", "CANCELADO"}

\* (request.form.get("estado") or "").strip().upper()
StripUpper(raw) ==
  CASE raw = " cancelado " -> "CANCELADO"
    [] raw = "pagado" -> "PAGADO"
    [] OTHER -> raw

transiciones(estado_actual) ==
  CASE estado_actual = "CREADO" -> {"PAGADO", "ENVIADO", "CANCELADO"}
    [] estado_actual = "PAGADO" -> {"ENVIADO", "CANCELADO"}
    [] estado_actual = "ENVIADO" -> {"PAGADO"}
    [] estado_actual = "CANCELADO" -> {}
    [] OTHER -> {}

\* Line 738: the restock runs on an accepted move into CANCELADO.
DebeReponer(nuevo, estado_actual) ==
  nuevo = "CANCELADO" /\ estado_actual # "CANCELADO"

\* Line 739: find({"id_pedido": id_pedido}) on detalle_pedido.
DetallesDe(detalles, id_pedido) ==
  SelectSeq(detalles, LAMBDA d : d.id_pedido = id_pedido)

\* Line 741: $inc of the quantity on the product of the line.
ReponerLinea(prods, d) == IncStock(prods, d.id_producto, d.cantidad)

\* Lines 717-736: the message of the early return of cambiar_estado_pedido
\* on the orders as the find_one of line 722 reads them, or "Estado
\* actualizado" when the handler goes on to write.
CambiarFlash(peds, id_pedido, raw) ==
  LET nuevo == StripUpper(raw) IN
  IF nuevo \notin Estados THEN "Estado invalido."
  ELSE IF id_pedido = 0 THEN "Error al cambiar estado"
  ELSE IF id_pedido > Len(peds) THEN "Pedido no encontrado."
  ELSE IF nuevo \notin transiciones(peds[id_pedido].estado)
  THEN "No se puede cambiar"
  ELSE "Estado actualizado"

\* Lines 744-751: the audit document of a status change.
AuditRecord(id_pedido, estado_actual, nuevo) ==
  [entidad_id |-> id_pedido, antes |-> estado_actual, despues |-> nuevo]

\* ------------------------------------------------- productos (admin)
NombreInputs == {"", "N"}
PrecioInputs == {0, 30}
StockInputs == {-1, StockInicial}

\* Lines 359-397 of productos_crear: the message and the collection after
\* it; the new document is stored under id, the ObjectId generated for it.
productos_crear(prods, id, nombre, precio, stock, activo) ==
  IF nombre = ""
  THEN [flash |-> "El nombre es obligatorio.", productos |-> prods]
  ELSE [flash |-> "Producto creado correctamente.",
        productos |-> [p \in DOMAIN prods \cup {id} |->
                         IF p = id
                         THEN [nombre |-> nombre, precio |-> precio,
                               stock |-> stock, activo |-> activo]
                         ELSE prods[p]]]

\* Lines 413-428 of productos_actualizar, up to the find_one of line 425:
\* the message of the early return, or "ok".
ActualizarFlash(id, nombre) ==
  IF nombre = "" THEN "El nombre es obligatorio."
  ELSE IF ~ObjectIdValido(id) THEN "Error al actualizar producto"
  ELSE "ok"

\* Mutant: the submitted stock is added to the stored stock ($inc).
ActualizarProducto_suma_stock(prods, id, nombre, precio, stock, activo) ==
  IF id \in DOMAIN prods
  THEN [prods EXCEPT ![id] =
         [nombre |-> nombre, precio |-> precio,
          stock |-> prods[id].stock + stock, activo |-> activo]]
  ELSE prods

\* Lines 439-450 of productos_actualizar: $set of nombre, precio, stock and
\* activo on the document with that id, if there is one.
ActualizarProducto(prods, id, nombre, precio, stock, activo) ==
  IF id \in DOMAIN prods
  THEN [prods EXCEPT ![id] =
         [nombre |-> nombre, precio |-> precio, stock |-> stock,
          activo |-> activo]]
  ELSE prods

\* Lines 462-467 of productos_eliminar: delete_one.
productos_eliminar(prods, id) ==
  IF ~ObjectIdValido(id)
  THEN [flash |-> "Error al eliminar", productos |-> prods]
  ELSE [flash |-> "Producto eliminado.",
        productos |-> [p \in DOMAIN prods \ {id} |-> prods[p]]]

\* ---------------------------------------------------- requests in threads
\* A step of a thread is one operation on the database together with the
\* local computation around it.  A handler that returns is at its return
\* statement (pc "fin") with its local variables and the message flashed.
Termina(t, f) == [t EXCEPT !.pc = "fin", !.flash = f]

\* A request is routed to an idle thread.
Recibida(h) ==
  /\ hilos[h].pc = "libre"
  /\ peticiones < MaxPeticiones
  /\ peticiones' = peticiones + 1

\* Lines 629-649 of pedidos_crear: the form is read and normalised.
CrearRecibir(h, formularios) ==
  /\ Recibida(h)
  /\ \E f \in formularios :
       LET t == [pc |-> "validar", op |-> "pedidos_crear",
                 id_cliente |-> f.id_cliente, ids |-> f.ids, cants |-> f.cants,
                 items |-> <<>>, i |-> 1, total |-> 0, detalles |-> <<>>,
                 id_pedido |-> 0, flash |-> ""]
           items == Normaliza(f.ids, f.cants)
       IN hilos' = [hilos EXCEPT ![h] =
            IF f.id_cliente = "" \/ Len(f.ids) = 0 \/ Len(f.cants) = 0
            THEN Termina(t, "Faltan datos del pedido.")
            ELSE IF Len(items) = 0
            THEN Termina(t, "No hay items validos.")
            ELSE [t EXCEPT !.items = items]]
  /\ UNCHANGED <<db, creados>>

\* Lines 654-670: one iteration of the validation loop, with its find_one.
ValidarPaso(h) ==
  /\ hilos[h].pc = "validar"
  /\ LET t == hilos[h]
         v == ValidarLinea(productos, t.items[t.i], t.total, t.detalles)
     IN hilos' = [hilos EXCEPT ![h] =
          IF v.flash # "ok" THEN Termina(t, v.flash)
          ELSE [t EXCEPT !.total = v.total, !.detalles = v.detalles,
                         !.i = IF t.i = Len(t.items) THEN 1 ELSE t.i + 1,
                         !.pc = IF t.i = Len(t.items)
                                THEN "insertar_pedido" ELSE "validar"]]
  /\ UNCHANGED <<db, peticiones, creados>>

\* Lines 673-682: the order document is built (ObjectId(id_cliente) raises
\* on a malformed id) and inserted.
InsertarPedido(h) ==
  /\ hilos[h].pc = "insertar_pedido"
  /\ LET t == hilos[h] IN
     IF t.id_cliente = "zz"
     THEN /\ hilos' = [hilos EXCEPT ![h] = Termina(t, "Error")]
          /\ UNCHANGED pedidos
     ELSE /\ Len(pedidos) < MaxPedidos
          /\ pedidos' = Append(pedidos, [total |-> t.total, estado |-> "CREADO"])
          /\ hilos' = [hilos EXCEPT ![h] =
               [t EXCEPT !.id_pedido = Len(pedidos) + 1,
                         !.pc = "insertar_detalle"]]
  /\ UNCHANGED <<productos, detalle_pedido, auditoria, peticiones, creados>>

\* Lines 686-687: the line item of the iteration is inserted.
InsertarDetalle(h) ==
  /\ hilos[h].pc = "insertar_detalle"
  /\ LET t == hilos[h] IN
     /\ detalle_pedido' =
          Append(detalle_pedido, ConPedido(t.detalles[t.i], t.id_pedido))
     /\ hilos' = [hilos EXCEPT ![h] = [t EXCEPT !.pc = "descontar"]]
  /\ UNCHANGED <<productos, pedidos, auditoria, peticiones, creados>>

\* Line 688 and the end of the loop (690-694).
Descontar(h) ==
  /\ hilos[h].pc = "descontar"
  /\ LET t == hilos[h] IN
     /\ productos' = DescontarLinea(productos, t.detalles[t.i])
     /\ hilos' = [hilos EXCEPT ![h] =
          IF t.i = Len(t.detalles)
          THEN Termina(t, "Pedido creado correctamente.")
          ELSE [t EXCEPT !.i = t.i + 1, !.pc = "insertar_detalle"]]
  /\ UNCHANGED <<pedidos, detalle_pedido, auditoria, peticiones, creados>>

\* Mutant: a refused transition is written to the audit log.
CambiarRecibir_audita_rechazo(h, ids, estados) ==
  /\ Recibida(h)
  /\ \E id \in ids, raw \in estados, falla \in BOOLEAN :
       LET f == CambiarFlash(pedidos, id, raw)
           t == [pc |-> "estado", op |-> "cambiar_estado_pedido",
                 id_pedido |-> id, estado |-> raw, nuevo |-> StripUpper(raw),
                 estado_actual |-> "", detalles |-> <<>>, i |-> 1,
                 flash |-> ""]
       IN /\ hilos' = [hilos EXCEPT ![h] =
               IF f = "Estado invalido." THEN Termina(t, f)
               ELSE IF falla THEN Termina(t, "Error al cambiar estado")
               ELSE IF f # "Estado actualizado" THEN Termina(t, f)
               ELSE [t EXCEPT !.estado_actual = pedidos[id].estado,
                              !.pc = IF DebeReponer(t.nuevo, pedidos[id].estado)
                                     THEN "leer_detalles" ELSE "estado"]]
          /\ auditoria' =
               IF f = "No se puede cambiar" /\ ~falla
               THEN Append(auditoria,
                      AuditRecord(id, pedidos[id].estado, t.nuevo))
               ELSE auditoria
  /\ UNCHANGED <<productos, pedidos, detalle_pedido, creados>>

\* Lines 717-738 of cambiar_estado_pedido: the new status is read, the order
\* is fetched (find_one, which may raise) and the transition is checked
\* against the status fetched.
CambiarRecibir(h, ids, estados) ==
  /\ Recibida(h)
  /\ \E id \in ids, raw \in estados, falla \in BOOLEAN :
       LET f == CambiarFlash(pedidos, id, raw)
           t == [pc |-> "estado", op |-> "cambiar_estado_pedido",
                 id_pedido |-> id, estado |-> raw, nuevo |-> StripUpper(raw),
                 estado_actual |-> "", detalles |-> <<>>, i |-> 1,
                 flash |-> ""]
       IN hilos' = [hilos EXCEPT ![h] =
            IF f = "Estado invalido." THEN Termina(t, f)
            ELSE IF falla THEN Termina(t, "Error al cambiar estado")
            ELSE IF f # "Estado actualizado" THEN Termina(t, f)
            ELSE [t EXCEPT !.estado_actual = pedidos[id].estado,
                           !.pc = IF DebeReponer(t.nuevo, pedidos[id].estado)
                                  THEN "leer_detalles" ELSE "estado"]]
  /\ UNCHANGED <<db, creados>>

\* Line 739: the line items of the order are listed.
LeerDetalles(h) ==
  /\ hilos[h].pc = "leer_detalles"
  /\ LET t == hilos[h]
         detalles == DetallesDe(detalle_pedido, t.id_pedido)
     IN hilos' = [hilos EXCEPT ![h] =
          [t EXCEPT !.detalles = detalles,
                    !.pc = IF Len(detalles) = 0 THEN "estado" ELSE "reponer"]]
  /\ UNCHANGED <<db, peticiones, creados>>

\* Lines 740-741: one iteration of the restock loop.
Reponer(h) ==
  /\ hilos[h].pc = "reponer"
  /\ LET t == hilos[h] IN
     /\ productos' = ReponerLinea(productos, t.detalles[t.i])
     /\ hilos' = [hilos EXCEPT ![h] =
          [t EXCEPT !.i = t.i + 1,
                    !.pc = IF t.i = Len(t.detalles) THEN "estado" ELSE "reponer"]]
  /\ UNCHANGED <<pedidos, detalle_pedido, auditoria, peticiones, creados>>

\* Line 743: the status is written.
EscribirEstado(h) ==
  /\ hilos[h].pc = "estado"
  /\ LET t == hilos[h] IN
     /\ pedidos' = [pedidos EXCEPT ![t.id_pedido].estado = t.nuevo]
     /\ hilos' = [hilos EXCEPT ![h] = [t EXCEPT !.pc = "auditoria"]]
  /\ UNCHANGED <<productos, detalle_pedido, auditoria, peticiones, creados>>

\* Lines 744-753: the audit record is inserted and the handler answers.
Auditar(h) ==
  /\ hilos[h].pc = "auditoria"
  /\ Len(auditoria) < MaxAudit
  /\ LET t == hilos[h] IN
     /\ auditoria' = Append(auditoria,
          AuditRecord(t.id_pedido, t.estado_actual, t.nuevo))
     /\ hilos' = [hilos EXCEPT ![h] = Termina(t, "Estado actualizado")]
  /\ UNCHANGED <<productos, pedidos, detalle_pedido, peticiones, creados>>

\* The positions at which a thread is about to operate on the database.
EnOperacion ==
  {"validar", "insertar_pedido", "insertar_detalle", "descontar",
   "leer_detalles", "reponer", "estado", "auditoria", "actualizar"}

\* The message of the except branch of the handler (696-698, 754-756,
\* 453-456).
FlashDeError(t) ==
  CASE t.op = "pedidos_crear" -> "Error"
    [] t.op = "cambiar_estado_pedido" -> "Error al cambiar estado"
    [] OTHER -> "Error al actualizar producto"

\* Mutant: the except branch of pedidos_crear takes back the line items
\* inserted and the stock decremented by the request.
Fallar_deshace(h) ==
  /\ hilos[h].pc \in EnOperacion
  /\ LET t == hilos[h]
         suyo == t.op = "pedidos_crear" /\ t.id_pedido > 0
         hechas == IF suyo THEN t.i - 1 ELSE 0
         RECURSIVE Repuesto(_, _)
         Repuesto(prods, k) ==
           IF k > hechas THEN prods
           ELSE Repuesto(ReponerLinea(prods, t.detalles[k]), k + 1)
     IN /\ hilos' = [hilos EXCEPT ![h] = Termina(t, FlashDeError(t))]
        /\ productos' = Repuesto(productos, 1)
        /\ detalle_pedido' =
             IF suyo
             THEN SelectSeq(detalle_pedido, LAMBDA d : d.id_pedido # t.id_pedido)
             ELSE detalle_pedido
  /\ UNCHANGED <<pedidos, auditoria, peticiones, creados>>

\* The operation on the database raises (the server is unreachable, the
\* write is refused): the except branch flashes the error and redirects;
\* it undoes nothing.
Fallar(h) ==
  /\ hilos[h].pc \in EnOperacion
  /\ hilos' = [hilos EXCEPT ![h] = Termina(hilos[h], FlashDeError(hilos[h]))]
  /\ UNCHANGED <<db, peticiones, creados>>

\* The administrative requests on productos.  falla is the operation on
\* the database of the step (or the parsing of a number before it) raising.
AdminForm(op, id, nombre, precio, stock, activo) ==
  [pc |-> "fin", op |-> op, id |-> id, nombre |-> nombre, precio |-> precio,
   stock |-> stock, activo |-> activo, flash |-> ""]

\* Lines 359-397: productos_crear, with its insert_one (391).
ProductosCrear(h) ==
  /\ Recibida(h)
  /\ \E nombre \in NombreInputs, precio \in PrecioInputs, stock \in StockInputs,
        activo \in BOOLEAN, falla \in BOOLEAN :
       LET t == AdminForm("productos_crear", "", nombre, precio, stock, activo)
           r == productos_crear(productos, IdNuevo(creados + 1), nombre, precio,
                                stock, activo)
       IN IF falla
          THEN /\ hilos' = [hilos EXCEPT ![h] =
                    Termina(t, "Error al crear producto")]
               /\ UNCHANGED <<productos, creados>>
          ELSE /\ hilos' = [hilos EXCEPT ![h] = Termina(t, r.flash)]
               /\ productos' = r.productos
               /\ creados' = IF nombre = "" THEN creados ELSE creados + 1
  /\ UNCHANGED <<pedidos, detalle_pedido, auditoria>>

\* Lines 413-428 of productos_actualizar: the form is read and the image
\* fields of the product are fetched (find_one 425).
ActualizarRecibir(h, ids) ==
  /\ Recibida(h)
  /\ \E id \in ids, nombre \in NombreInputs, precio \in PrecioInputs,
        stock \in StockInputs, activo \in BOOLEAN, falla \in BOOLEAN :
       LET t == AdminForm("productos_actualizar", id, nombre, precio, stock,
                          activo)
           f == ActualizarFlash(id, nombre)
       IN hilos' = [hilos EXCEPT ![h] =
            IF falla THEN Termina(t, "Error al actualizar producto")
            ELSE IF f # "ok" THEN Termina(t, f)
            ELSE [t EXCEPT !.pc = "actualizar"]]
  /\ UNCHANGED <<db, creados>>

\* Lines 439-452: the update_one of productos_actualizar.
ActualizarEscribir(h) ==
  /\ hilos[h].pc = "actualizar"
  /\ LET t == hilos[h] IN
     /\ productos' = ActualizarProducto(productos, t.id, t.nombre, t.precio,
                                        t.stock, t.activo)
     /\ hilos' = [hilos EXCEPT ![h] = Termina(t, "Producto actualizado.")]
  /\ UNCHANGED <<pedidos, detalle_pedido, auditoria, peticiones, creados>>

\* Lines 462-467: productos_eliminar, with its delete_one (463).
ProductosEliminar(h, ids) ==
  /\ Recibida(h)
  /\ \E id \in ids, falla \in BOOLEAN :
       LET t == [pc |-> "fin", op |-> "productos_eliminar", id |-> id,
                 flash |-> ""]
           r == productos_eliminar(productos, id)
       IN IF falla
          THEN /\ hilos' = [hilos EXCEPT ![h] = Termina(t, "Error al eliminar")]
               /\ UNCHANGED productos
          ELSE /\ hilos' = [hilos EXCEPT ![h] = Termina(t, r.flash)]
               /\ productos' = r.productos
  /\ UNCHANGED <<pedidos, detalle_pedido, auditoria, creados>>

\* The redirect is answered and the thread takes the next request.
Responder(h) ==
  /\ hilos[h].pc = "fin"
  /\ hilos' = [hilos EXCEPT ![h] = HiloLibre]
  /\ UNCHANGED <<db, peticiones, creados>>

\* ------------------------------------------------------------ behaviour
\* The products at start: p1 is active; p2 is active with a low stock,
\* inactive, or absent from the collection.
StockDeInicio(p) == IF p = "p1" THEN StockInicial ELSE 1

ProductosIniciales ==
  LET p1 == [nombre |-> "A", precio |-> 10, stock |-> StockDeInicio("p1"),
             activo |-> TRUE]
      p2 == [nombre |-> "B", precio |-> 20, stock |-> StockDeInicio("p2"),
             activo |-> TRUE]
  IN {[p \in Pids |-> IF p = "p1" THEN p1 ELSE p2],
      [p \in Pids |-> IF p = "p1" THEN p1 ELSE [p2 EXCEPT !.activo = FALSE]],
      [p \in {"p1"} |-> p1]}

Init ==
  /\ productos \in ProductosIniciales
  /\ pedidos = <<>>
  /\ detalle_pedido = <<>>
  /\ auditoria = <<>>
  /\ hilos = [h \in Hilos |-> HiloLibre]
  /\ peticiones = 0
  /\ creados = 0

\* The same on a catalogue of two active products.
InitHilos ==
  /\ Init
  /\ \A p \in Pids : p \in DOMAIN productos /\ productos[p].activo

Cant(v) == [esEntero |-> TRUE, valor |-> v]

\* The order forms submitted: with a well-formed customer, every list of at
\* most MaxLineas (product id, quantity) fields whose quantities before the
\* last are integers >= 0, and two forms whose lists differ in length; one
\* form for each other customer field.
Formularios ==
  {f \in [id_cliente : {"c1"}, ids : SeqsHasta(PidInputs, MaxLineas),
          cants : SeqsHasta(CantInputs, MaxLineas)] :
     /\ Len(f.ids) = Len(f.cants)
     /\ \A i \in 1..(Len(f.cants) - 1) :
          f.cants[i].esEntero /\ f.cants[i].valor >= 0}
    \cup {[id_cliente |-> "c1", ids |-> <<"p1", "p1">>, cants |-> <<Cant(1)>>],
          [id_cliente |-> "c1", ids |-> <<"p1">>, cants |-> <<Cant(1), Cant(0)>>]}
    \cup {[id_cliente |-> k, ids |-> <<"p1">>, cants |-> <<Cant(1)>>] :
            k \in ClienteInputs}

\* The order forms of valid pairs: a line of p1 with a quantity in
\* 1..MaxCant, alone or followed by one unit of p2.
FormulariosHilos ==
  {f \in Formularios :
     /\ f.id_cliente = "c1"
     /\ Len(f.ids) = Len(f.cants)
     /\ f.ids \in {<<"p1">>, <<"p1", "p2">>}
     /\ f.cants[1].esEntero /\ f.cants[1].valor >= 1
     /\ Len(f.ids) = 2 => f.cants[2] = Cant(1)}

\* Status changes to PAGADO, to CANCELADO and to no status.
EstadoInputsHilos == {"PAGADO", "CANCELADO", ""}

\* The steps of the requests in progress, the same in every specification.
PasoPedido ==
  \E h \in Hilos :
    \/ ValidarPaso(h)
    \/ InsertarPedido(h)
    \/ InsertarDetalle(h)
    \/ Descontar(h)

PasoCambio ==
  \E h \in Hilos :
    \/ LeerDetalles(h)
    \/ Reponer(h)
    \/ EscribirEstado(h)
    \/ Auditar(h)

PasoFallar == \E h \in Hilos : Fallar(h)

PasoResponder == \E h \in Hilos : Responder(h)

Pasos == PasoPedido \/ PasoCambio \/ PasoFallar \/ PasoResponder

\* Orders of any form, MaxFormularios of them.
Recibir ==
  /\ peticiones < MaxFormularios
  /\ \E h \in Hilos : CrearRecibir(h, Formularios)

Next == Recibir \/ PasoPedido \/ PasoFallar \/ PasoResponder

Spec == Init /\ [][Next]_vars

\* Orders of one unit of p1 and status changes of any kind.
RecibirEstados ==
  \E h \in Hilos :
    \/ CrearRecibir(h, {f \in FormulariosHilos : f.cants = <<Cant(1)>>})
    \/ CambiarRecibir(h, IdPedidoInputs, EstadoInputs)

NextEstados == RecibirEstados \/ Pasos

SpecEstados == InitHilos /\ [][NextEstados]_vars

\* Orders of valid pairs, cancellations and payments, on two active products.
RecibirHilos ==
  \E h \in Hilos :
    \/ CrearRecibir(h, FormulariosHilos)
    \/ CambiarRecibir(h, IdPedidoInputs, EstadoInputsHilos)

NextHilos == RecibirHilos \/ Pasos

SpecHilos == InitHilos /\ [][NextHilos]_vars

\* Requests one at a time: a request is handed to a thread when no other
\* thread is executing one.
EnSerie == \A h \in Hilos : hilos[h].pc \in {"libre", "fin"}

RecibirSerie == EnSerie /\ RecibirHilos

NextSerie == RecibirSerie \/ Pasos

SpecSerie == InitHilos /\ [][NextSerie]_vars

\* A catalogue of p1 alone at start; orders of one line of p1 or of a
\* product of the catalogue, status changes, and the administrative requests
\* on p1, on the products of the catalogue and on ids of no product.
InitAdmin == Init /\ DOMAIN productos = {"p1"}

FormulariosAdmin ==
  {[id_cliente |-> "c1", ids |-> <<p>>, cants |-> <<Cant(q)>>] :
     p \in DOMAIN productos \cup {"p1"}, q \in 1..MaxCant}

RecibirAdmin ==
  \E h \in Hilos :
    \/ CrearRecibir(h, FormulariosAdmin)
    \/ CambiarRecibir(h, IdPedidoInputs, EstadoInputsHilos)
    \/ ProductosCrear(h)
    \/ ActualizarRecibir(h, PidInputs \cup DOMAIN productos)
    \/ ProductosEliminar(h, PidInputs \cup DOMAIN productos)

PasoActualizar == \E h \in Hilos : ActualizarEscribir(h)

NextAdmin == RecibirAdmin \/ PasoActualizar \/ Pasos

SpecAdmin == InitAdmin /\ [][NextAdmin]_vars

\* ------------------------------------------------------------ properties
\* The request a thread is executing or has just answered.
EsCrear(t) == t.pc # "libre" /\ t.op = "pedidos_crear"
EsCambio(t) == t.pc # "libre" /\ t.op = "cambiar_estado_pedido"

\* No request is in progress: every thread is idle or has answered.
Reposo == \A h \in Hilos : hilos[h].pc \in {"libre", "fin"}

\* The step is taken by thread h.
PasoDe(h) == hilos'[h] # hilos[h]

\* The step of thread h answers with the except branch of its handler.
FallaDe(h) ==
  /\ hilos[h].pc \in EnOperacion
  /\ hilos'[h] = Termina(hilos[h], FlashDeError(hilos[h]))

\* The line items of order id, oldest first.
LineasDe(id) == SelectSeq(detalle_pedido, LAMBDA d : d.id_pedido = id)

\* The transition table as the specification states it.
TablaEspecificada ==
  {<<"CREADO", "PAGADO">>, <<"CREADO", "ENVIADO">>, <<"CREADO", "CANCELADO">>,
   <<"PAGADO", "ENVIADO">>, <<"PAGADO", "CANCELADO">>, <<"ENVIADO", "PAGADO">>}

\* C1: a status change is accepted exactly for the pairs (current status,
\* requested status) of the table, so every status written to an order is
\* one the table allows from the status the order has at that moment.
C1_TablaDeTransiciones ==
  [][\A id \in 1..Len(pedidos) :
       pedidos'[id].estado # pedidos[id].estado =>
         <<pedidos[id].estado, pedidos'[id].estado>> \in TablaEspecificada]_vars

\* The requests the specification calls rejected: an unknown status value, an
\* unknown order, or a pair outside the table.
Rechazada(id, raw) ==
  \/ StripUpper(raw) \notin {"CREADO", "PAGADO", "ENVIADO", "CANCELADO"}
  \/ id \notin 1..Len(pedidos)
  \/ <<pedidos[id].estado, StripUpper(raw)>> \notin TablaEspecificada

C2_Paso ==
  \A h \in Hilos :
    (/\ hilos[h].pc = "libre"
     /\ EsCambio(hilos'[h])
     /\ Rechazada(hilos'[h].id_pedido, hilos'[h].estado)) =>
      /\ hilos'[h].pc = "fin"
      /\ hilos'[h].flash # "Estado actualizado"
      /\ UNCHANGED db

\* C2: a status-change request for an unknown status value, an unknown order
\* or a pair outside the table is answered at once as refused and writes
\* nothing: products, orders, line items and audit records are as they were
\* (an order in ENVIADO asked to go to CREADO stays ENVIADO).
C2_RechazoSinCambios == [][C2_Paso]_vars

\* An order in ENVIADO was asked to go to CREADO and the request was refused.
C2_Witness ==
  \E h \in Hilos :
    /\ EsCambio(hilos[h])
    /\ hilos[h].pc = "fin"
    /\ hilos[h].estado = "CREADO"
    /\ hilos[h].id_pedido \in 1..Len(pedidos)
    /\ pedidos[hilos[h].id_pedido].estado = "ENVIADO"
    /\ hilos[h].flash = "No se puede cambiar"
    /\ Len(auditoria) = 1

\* The audit records of one order, oldest first.
AuditDe(id) == SelectSeq(auditoria, LAMBDA a : a.entidad_id = id)

\* C3: with requests executed one at a time, between requests the audit
\* records of every order end at its current status: an order with no
\* record is in CREADO, and the "despues" of the latest record of an order
\* is the status of the order.
C3_Auditoria ==
  Reposo =>
    \A id \in 1..Len(pedidos) :
      LET a == AuditDe(id) IN
        /\ Len(a) = 0 => pedidos[id].estado = "CREADO"
        /\ Len(a) > 0 => a[Len(a)].despues = pedidos[id].estado

\* Thread h has run pedidos_crear to its end and created order id.
CreadoPor(h, id) ==
  /\ EsCrear(hilos[h])
  /\ hilos[h].pc = "fin"
  /\ hilos[h].flash = "Pedido creado correctamente."
  /\ hilos[h].id_pedido = id

\* C4: with requests executed one at a time, cancelling an order adds the
\* quantities of its lines back exactly once: when the only order, created
\* in full, is CANCELADO and no request is in progress, every product has
\* the stock it had before the order.
C4_ReposicionUnaVez ==
  (/\ Reposo
   /\ Len(pedidos) = 1
   /\ pedidos[1].estado = "CANCELADO"
   /\ \E h \in Hilos : CreadoPor(h, 1)) =>
    \A p \in DOMAIN productos : productos[p].stock = StockDeInicio(p)

\* C5: after one order creation, whatever its list of pairs, no product's
\* stock is negative.
C5_StockNoNegativo ==
  peticiones <= 1 => \A p \in DOMAIN productos : productos[p].stock >= 0

\* The submitted (product, quantity) pairs of a form, by position.
Pares(t) == 1..Min(Len(t.ids), Len(t.cants))

\* Pair i names no product of the collection, or an inactive one, or asks for
\* more than the product's stock.
LineaInvalida(t, i) ==
  \/ t.ids[i] \notin DOMAIN productos
  \/ ~productos[t.ids[i]].activo
  \/ t.cants[i].esEntero /\ t.cants[i].valor > productos[t.ids[i]].stock

\* Pair i has a quantity that is no positive integer.
CantidadMala(t, i) == ~(t.cants[i].esEntero /\ t.cants[i].valor > 0)

\* The pairs of a form that have a well-formed product id and a positive
\* integer quantity, in order.
ParesConservados(t) ==
  SelectSeq([i \in Pares(t) |-> [pid |-> t.ids[i], cant |-> t.cants[i]]],
            LAMBDA z : z.pid \in {"p1", "p2"} /\ z.cant.esEntero
                         /\ z.cant.valor > 0)

\* C6 as stated: a request goes on to insert its order only if none of its
\* submitted lines has a missing or inactive product or an excessive
\* quantity.
C6_CualquierLinea ==
  [][\A h \in Hilos :
       (/\ hilos[h].pc = "insertar_pedido"
        /\ PasoDe(h)
        /\ hilos'[h].id_pedido > 0) =>
         \A i \in Pares(hilos[h]) : ~LineaInvalida(hilos[h], i)]_vars

\* The validation of a pair with a well-formed product id and a positive
\* integer quantity that finds its product missing or inactive, or its
\* quantity above the stock, ends the request with nothing written.
C6_Paso ==
  \A h \in Hilos :
    (hilos[h].pc = "validar" /\ PasoDe(h)) =>
      LET t == hilos[h]
          k == ParesConservados(t)[t.i]
      IN (\/ k.pid \notin DOMAIN productos
          \/ ~productos[k.pid].activo
          \/ k.cant.valor > productos[k.pid].stock) =>
           /\ hilos'[h].pc = "fin"
           /\ hilos'[h].flash # "Pedido creado correctamente."
           /\ hilos'[h].id_pedido = 0
           /\ UNCHANGED db

\* A request writes only after the validation of all its pairs.
C6_ValidaAntes ==
  \A h \in Hilos :
    EsCrear(hilos[h]) =>
      /\ hilos[h].pc = "validar" =>
           hilos[h].id_pedido = 0 /\ hilos[h].i <= Len(ParesConservados(hilos[h]))
      /\ hilos[h].id_pedido > 0 =>
           Len(hilos[h].detalles) = Len(ParesConservados(hilos[h]))

\* C6 amended: a line with a well-formed product id and a positive integer
\* quantity whose product is missing or inactive, or whose quantity exceeds
\* the stock, when the request validates it, makes the request write
\* nothing, the lines validated before it included.
C6_LineaConservada == []C6_ValidaAntes /\ [][C6_Paso]_vars

\* A form whose first line passed validation and whose second asks for more
\* than the stock was refused, and nothing has been written.
C6_Witness ==
  \E h \in Hilos :
    /\ EsCrear(hilos[h])
    /\ hilos[h].pc = "fin"
    /\ hilos[h].flash = "Stock insuficiente"
    /\ Len(hilos[h].ids) = 2
    /\ hilos[h].i = 2
    /\ Len(hilos[h].detalles) = 1
    /\ LineaInvalida(hilos[h], 2)
    /\ peticiones = 1
    /\ pedidos = <<>>
    /\ detalle_pedido = <<>>
    /\ productos \in ProductosIniciales

\* C7 as stated: a request with a pair whose quantity is no positive integer
\* inserts no order.
C7_CualquierPar ==
  \A h \in Hilos :
    (EsCrear(hilos[h]) /\ hilos[h].id_pedido > 0) =>
      \A i \in Pares(hilos[h]) : ~CantidadMala(hilos[h], i)

\* C7 amended: a pair whose quantity is no positive integer is dropped; the
\* order is aborted with no write when every pair is such a pair, and is
\* otherwise created from the remaining pairs, one line item for each.
C7_ParesDescartados ==
  \A h \in Hilos :
    EsCrear(hilos[h]) =>
      LET t == hilos[h]
          k == ParesConservados(t)
          l == LineasDe(t.id_pedido)
      IN /\ (\A i \in Pares(t) : CantidadMala(t, i)) =>
              /\ t.pc = "fin"
              /\ t.flash \in {"Faltan datos del pedido.", "No hay items validos."}
              /\ t.id_pedido = 0
         /\ t.id_pedido > 0 =>
              /\ Len(l) <= Len(k)
              /\ \A i \in 1..Len(l) :
                   /\ l[i].id_producto = k[i].pid
                   /\ l[i].cantidad = k[i].cant.valor
                   /\ l[i].cantidad > 0
              /\ t.flash = "Pedido creado correctamente." => Len(l) = Len(k)

\* A form with a pair of quantity 0 and a valid pair was accepted: the order
\* has the one line of the valid pair.
C7_Witness ==
  \E h \in Hilos :
    /\ CreadoPor(h, 1)
    /\ Len(hilos[h].ids) = 2
    /\ Len(hilos[h].cants) = 2
    /\ hilos[h].cants[1].esEntero
    /\ hilos[h].cants[1].valor = 0
    /\ Len(pedidos) = 1
    /\ Len(detalle_pedido) = 1
    /\ detalle_pedido[1].id_producto = hilos[h].ids[2]
    /\ detalle_pedido[1].cantidad = hilos[h].cants[2].valor

\* The sum of the subtotals of the lines of order id.
RECURSIVE SubtotalesDesde(_, _)
SubtotalesDesde(id, i) ==
  IF i > Len(detalle_pedido) THEN 0
  ELSE (IF detalle_pedido[i].id_pedido = id THEN detalle_pedido[i].subtotal ELSE 0)
         + SubtotalesDesde(id, i + 1)

\* C8: when no request is in progress, every order's total is the sum of its
\* lines' subtotals and every line's subtotal is its unit price times its
\* quantity.
C8_TotalYSubtotales ==
  Reposo =>
    /\ \A id \in 1..Len(pedidos) : pedidos[id].total = SubtotalesDesde(id, 1)
    /\ \A i \in 1..Len(detalle_pedido) :
         detalle_pedido[i].subtotal =
           detalle_pedido[i].precio_unit * detalle_pedido[i].cantidad

\* The quantity of product p on the lines of order id.
RECURSIVE CantidadDesde(_, _, _)
CantidadDesde(id, p, i) ==
  IF i > Len(detalle_pedido) THEN 0
  ELSE (IF detalle_pedido[i].id_pedido = id /\ detalle_pedido[i].id_producto = p
        THEN detalle_pedido[i].cantidad ELSE 0) + CantidadDesde(id, p, i + 1)

CantidadPedida(id, p) == CantidadDesde(id, p, 1)

\* The quantity of p on the lines of the orders id.. that are not cancelled.
RECURSIVE ReservadoDesde(_, _)
ReservadoDesde(p, id) ==
  IF id > Len(pedidos) THEN 0
  ELSE (IF pedidos[id].estado # "CANCELADO" THEN CantidadPedida(id, p) ELSE 0)
         + ReservadoDesde(p, id + 1)

\* C9: with requests executed one at a time and no administrative edit,
\* between requests a product's stock is its initial stock minus the
\* quantities of its lines in the orders that are not cancelled.
C9_Conservacion ==
  Reposo =>
    \A p \in DOMAIN productos :
      productos[p].stock = StockDeInicio(p) - ReservadoDesde(p, 1)

\* The sum of current unit price times quantity over the pairs i.. of a form.
RECURSIVE TotalDesde(_, _)
TotalDesde(t, i) ==
  IF i > Len(t.ids) THEN 0
  ELSE productos[t.ids[i]].precio * t.cants[i].valor + TotalDesde(t, i + 1)

\* The steps of a request that goes on after validation: one order is
\* inserted, in CREADO, with the total of the pairs; then for each pair in
\* turn its line item is inserted and its quantity is taken from the stock
\* of its product, no other stock changing.
C10_Paso ==
  \A h \in Hilos :
    (PasoDe(h) /\ EsCrear(hilos[h]) /\ ~FallaDe(h)) =>
      LET t == hilos[h]
          n == Len(pedidos)
      IN /\ t.pc = "insertar_pedido" =>
              /\ pedidos' = Append(pedidos,
                   [total |-> TotalDesde(t, 1), estado |-> "CREADO"])
              /\ hilos'[h].id_pedido = n + 1
              /\ UNCHANGED <<productos, detalle_pedido>>
         /\ t.pc = "insertar_detalle" =>
              /\ detalle_pedido' = Append(detalle_pedido,
                   [id_pedido |-> t.id_pedido,
                    id_producto |-> t.ids[t.i],
                    nombre_producto |-> productos[t.ids[t.i]].nombre,
                    cantidad |-> t.cants[t.i].valor,
                    precio_unit |-> productos[t.ids[t.i]].precio,
                    subtotal |-> productos[t.ids[t.i]].precio
                                   * t.cants[t.i].valor])
              /\ UNCHANGED <<productos, pedidos>>
         /\ t.pc = "descontar" =>
              /\ productos' = [productos EXCEPT
                   ![t.ids[t.i]].stock = @ - t.cants[t.i].valor]
              /\ UNCHANGED <<pedidos, detalle_pedido>>
         /\ t.pc = "fin" => UNCHANGED db

\* A request that answers "Pedido creado correctamente." has inserted one
\* order and one line item for each of its pairs.
C10_AlTerminar ==
  \A h \in Hilos :
    (/\ EsCrear(hilos[h])
     /\ hilos[h].pc = "fin"
     /\ hilos[h].flash = "Pedido creado correctamente.") =>
      /\ hilos[h].id_pedido \in 1..Len(pedidos)
      /\ pedidos[hilos[h].id_pedido].total = TotalDesde(hilos[h], 1)
      /\ Len(LineasDe(hilos[h].id_pedido)) = Len(hilos[h].ids)
      /\ hilos[h].i = Len(hilos[h].ids)

\* C10: a successful creation from valid pairs inserts exactly one order, in
\* CREADO, whose total is the sum of unit price times quantity, one line
\* item per pair, and takes each pair's quantity from its product's stock,
\* leaving the stock of the other products as it is.
C10_CreacionCorrecta == []C10_AlTerminar /\ [][C10_Paso]_vars

\* The only request: MaxCant units of p1 (price 10) and one unit of p2 (price
\* 20) give the total 10 * MaxCant + 20 and that much less in stock.
C10_Witness ==
  /\ peticiones = 1
  /\ \E h \in Hilos : CreadoPor(h, 1) /\ hilos[h].ids = <<"p1", "p2">>
  /\ Len(pedidos) = 1
  /\ pedidos[1].estado = "CREADO"
  /\ Len(detalle_pedido) = 2
  /\ detalle_pedido[1].cantidad = MaxCant
  /\ pedidos[1].total = 10 * MaxCant + 20
  /\ productos["p1"].stock = StockDeInicio("p1") - MaxCant
  /\ productos["p2"].stock = StockDeInicio("p2") - 1

\* The step is the write of productos_actualizar on product p.
ActualizaA(h, p) ==
  /\ hilos[h].pc = "actualizar"
  /\ hilos'[h].pc = "fin"
  /\ hilos'[h].op = "productos_actualizar"
  /\ hilos'[h].id = p
  /\ hilos'[h].flash = "Producto actualizado."

\* C11 (as stated): the stock of a product that exists before and after a
\* step changes only in the decrement of an order creation or in the
\* increment of a cancellation.
C11_SoloPedidos ==
  [][\A p \in DOMAIN productos \cap DOMAIN productos' :
       productos'[p].stock # productos[p].stock =>
         \E h \in Hilos : PasoDe(h) /\ hilos[h].pc \in {"descontar", "reponer"}
    ]_vars

C11_Paso ==
  \A p \in DOMAIN productos \cap DOMAIN productos' :
    productos'[p].stock # productos[p].stock =>
      \E h \in Hilos :
        /\ PasoDe(h)
        /\ \/ /\ EsCrear(hilos[h])
              /\ hilos[h].pc = "descontar"
              /\ productos'[p].stock < productos[p].stock
           \/ /\ EsCambio(hilos[h])
              /\ hilos[h].pc = "reponer"
              /\ hilos[h].nuevo = "CANCELADO"
              /\ hilos[h].estado_actual # "CANCELADO"
              /\ productos'[p].stock > productos[p].stock
           \/ /\ ActualizaA(h, p)
              /\ productos'[p].stock = hilos'[h].stock

\* C11 (amended): the stock of an existing product is changed only by an
\* order creation (a decrement), by a transition into CANCELADO from another
\* status (an increment), and by productos_actualizar on that product, which
\* sets it to the submitted stock.
C11_CambiosDeStock == [][C11_Paso]_vars

\* productos_actualizar has just set the stock of p1 to the submitted value,
\* a negative one.
C11_Witness ==
  \E h \in Hilos :
    /\ hilos[h].pc = "fin"
    /\ hilos[h].op = "productos_actualizar"
    /\ hilos[h].id = "p1"
    /\ hilos[h].flash = "Producto actualizado."
    /\ productos["p1"].stock = hilos[h].stock
    /\ hilos[h].stock < 0
    /\ pedidos = <<>>

\* C12: on an accepted transition into CANCELADO every line item of the
\* order is restocked before the status is written, so in no reachable state
\* is an order CANCELADO while one of its line items has not been restocked:
\* whenever an order is CANCELADO, no product's stock is short of its initial
\* stock by more than the quantities on the lines of the orders that are not
\* cancelled.
C12_CanceladoRepuesto ==
  (\E id \in 1..Len(pedidos) : pedidos[id].estado = "CANCELADO") =>
    \A p \in DOMAIN productos :
      productos[p].stock >= StockDeInicio(p) - ReservadoDesde(p, 1)

C13_Paso ==
  \A h \in Hilos :
    (PasoDe(h) /\ ~FallaDe(h)) =>
      /\ hilos[h].pc = "validar" =>
           LET it == hilos[h].items[hilos[h].i] IN
           (ProductoActivo(productos, it.pid) /\ productos[it.pid].stock >= it.q)
             => hilos'[h].pc \in {"validar", "insertar_pedido"}
      /\ hilos[h].pc = "descontar" =>
           LET d == hilos[h].detalles[hilos[h].i] IN
           d.id_producto \in DOMAIN productos =>
             productos'[d.id_producto].stock
               = productos[d.id_producto].stock - d.cantidad

\* C13: order creation has no concurrency control.  A request passes the
\* validation of a line whenever the stock it reads covers the quantity,
\* whatever the other thread is doing, and once validated it takes the
\* quantity from the stock it finds, whatever that stock is by then; so two
\* interleaved orders of the same product, each within the stock and
\* together above it, both persist and leave the stock below zero.
C13_SinControl == [][C13_Paso]_vars

\* Oversell: two orders of one line of p1 each, each quantity within the
\* initial stock, both created, and the stock of p1 below zero.
C13_Witness ==
  /\ Len(pedidos) = 2
  /\ Len(detalle_pedido) = 2
  /\ \A i \in 1..2 :
       /\ detalle_pedido[i].id_producto = "p1"
       /\ detalle_pedido[i].cantidad <= StockDeInicio("p1")
  /\ detalle_pedido[1].id_pedido # detalle_pedido[2].id_pedido
  /\ \A h \in Hilos :
       hilos[h].pc = "fin" /\ hilos[h].flash = "Pedido creado correctamente."
  /\ peticiones = 2
  /\ auditoria = <<>>
  /\ productos["p1"].stock < 0

\* C14: order creation is not atomic after validation.  When an operation of
\* a request raises, the except branch writes nothing: the order, the line
\* items and the stock decrements already written stay as they are, so an
\* order can remain whose line items do not add up to its total and only
\* some of whose products have been decremented.
C14_SinReversion ==
  [][\A h \in Hilos : FallaDe(h) => UNCHANGED db]_vars

\* The only request was an order of p1 and p2 that failed after the first
\* line: the order holds the total of both lines, the line of p1 is stored
\* and its stock taken, the line of p2 is missing and its stock untouched.
C14_Witness ==
  /\ peticiones = 1
  /\ \E h \in Hilos :
       /\ EsCrear(hilos[h])
       /\ hilos[h].pc = "fin"
       /\ hilos[h].flash = "Error"
       /\ hilos[h].id_pedido = 1
  /\ Len(pedidos) = 1
  /\ Len(detalle_pedido) = 1
  /\ detalle_pedido[1].id_producto = "p1"
  /\ SubtotalesDesde(1, 1) < pedidos[1].total
  /\ productos["p1"].stock = StockDeInicio("p1") - detalle_pedido[1].cantidad
  /\ productos["p2"].stock = StockDeInicio("p2")

\* Thread h has run cambiar_estado_pedido to its end on a transition of
\* order id into CANCELADO: it read a status other than CANCELADO, restocked
\* the line items it listed, wrote the status and the audit record.
CanceladoPor(h, id) ==
  /\ EsCambio(hilos[h])
  /\ hilos[h].pc = "fin"
  /\ hilos[h].flash = "Estado actualizado"
  /\ hilos[h].id_pedido = id
  /\ hilos[h].nuevo = "CANCELADO"
  /\ hilos[h].estado_actual # "CANCELADO"
  /\ hilos[h].detalles # <<>>

\* C15: two interleaved status changes to CANCELADO of the same order add
\* its quantities back at most once: in no state have both requests read a
\* status other than CANCELADO, both restocked the line items and both
\* written their audit record, with the stock of a product above its stock
\* before the order was created.
C15_ReposicionUnica ==
  \A id \in 1..Len(pedidos) :
    (\A h \in Hilos : CanceladoPor(h, id)) =>
      \A p \in DOMAIN productos : productos[p].stock <= StockDeInicio(p)

====
